---- MODULE Spec2Model ----
(***************************************************************************)
(* Runtime-configuration resolution of heliocron (src/config.rs).          *)
(*                                                                         *)
(* get_config builds a default Config, overlays ~/.config/heliocron.toml   *)
(* (merge_toml) and then the command-line arguments (merge_cli_args).      *)
(*                                                                         *)
(* Text is modelled as a sequence of one-character strings, so that the    *)
(* parsers really parse.  Degrees are fixed-point integers with Decimals   *)
(* fractional digits, durations are seconds, UTC offsets are minutes.      *)
(* The system zone's UTC offset is taken to be the same for every clock    *)
(* read of one run (no daylight-saving switch during the run).             *)
(***************************************************************************)
EXTENDS Integers, Sequences, FiniteSets, TLC

\* number of fractional digits kept of a coordinate
Decimals == 4

None == [none |-> TRUE]
Some(v) == [some |-> v]
IsSome(o) == o # None

Ok(v) == [ok |-> TRUE, val |-> v]
Err(e) == [ok |-> FALSE, err |-> e]

(***************************************************************************)
(* Text helpers                                                            *)
(***************************************************************************)
Digits == <<"0", "1", "2", "3", "4", "5", "6", "7", "8", "9">>

IsDigit(c) == \E i \in 1..10 : Digits[i] = c

DigitVal(c) == (CHOOSE i \in 1..10 : Digits[i] = c) - 1

AllDigits(s) == \A i \in 1..Len(s) : IsDigit(s[i])

RECURSIVE NatVal(_)
NatVal(s) == IF s = <<>> THEN 0
             ELSE 10 * NatVal(SubSeq(s, 1, Len(s) - 1)) + DigitVal(s[Len(s)])

RECURSIVE Pow10(_)
Pow10(n) == IF n = 0 THEN 1 ELSE 10 * Pow10(n - 1)

\* position of the first c in s, 0 when there is none
IndexOf(s, c) == IF \E i \in 1..Len(s) : s[i] = c
                 THEN CHOOSE i \in 1..Len(s) : s[i] = c /\ \A j \in 1..(i - 1) : s[j] # c
                 ELSE 0

\* the pieces of s between the separators c; i is the position of the first c
RECURSIVE Split(_, _)
RECURSIVE SplitAt(_, _, _)
SplitAt(s, c, i) == IF i = 0 THEN <<s>>
                    ELSE <<SubSeq(s, 1, i - 1)>> \o Split(SubSeq(s, i + 1, Len(s)), c)

Split(s, c) == SplitAt(s, c, IndexOf(s, c))

\* an unsigned decimal number as a fixed-point integer, -1 when malformed
MagnitudeOf(whole, frac) ==
    IF /\ AllDigits(whole) /\ AllDigits(frac)
       /\ Len(whole) + Len(frac) > 0
       /\ Len(frac) <= Decimals
    THEN NatVal(whole) * Pow10(Decimals) + NatVal(frac) * Pow10(Decimals - Len(frac))
    ELSE -1

MagnitudeOfParts(parts) == IF Len(parts) = 1 THEN MagnitudeOf(parts[1], <<>>)
                           ELSE IF Len(parts) = 2 THEN MagnitudeOf(parts[1], parts[2])
                           ELSE -1

\* "ddd" or "ddd.ddd"
ParseMagnitude(s) == MagnitudeOfParts(Split(s, "."))

(***************************************************************************)
(* structs::Coordinates::from_decimal_degrees                              *)
(***************************************************************************)
\* the signed, range-checked value of a magnitude m with direction letter dir
AxisValue(m, dir, axis, neg, limit) ==
    IF m < 0 THEN Err(<<"InvalidCoordinate", axis, "number">>)
    ELSE IF m > limit * Pow10(Decimals) THEN Err(<<"InvalidCoordinate", axis, "range">>)
    ELSE Ok(IF dir = neg THEN -m ELSE m)

\* one axis: "<number><direction letter>", pos and neg the two letters of the axis
ParseAxis(s, axis, pos, neg, limit) ==
    IF s = <<>> \/ s[Len(s)] \notin {pos, neg}
    THEN Err(<<"InvalidCoordinate", axis, "direction">>)
    ELSE AxisValue(ParseMagnitude(SubSeq(s, 1, Len(s) - 1)), s[Len(s)], axis, neg, limit)

parse_latitude(s) == ParseAxis(s, "latitude", "N", "S", 90)

parse_longitude(s) == ParseAxis(s, "longitude", "E", "W", 180)

CoordinatesOf(lat, lon) == IF ~lat.ok THEN lat
                           ELSE IF ~lon.ok THEN lon
                           ELSE Ok([latitude |-> lat.val, longitude |-> lon.val])

from_decimal_degrees(latitude, longitude) ==
    CoordinatesOf(parse_latitude(latitude), parse_longitude(longitude))

(***************************************************************************)
(* Calendar dates and chrono's DateTime<FixedOffset>                       *)
(***************************************************************************)
IsLeap(y) == (y % 4 = 0 /\ y % 100 # 0) \/ y % 400 = 0

DaysInMonth(y, m) == IF m = 2 THEN (IF IsLeap(y) THEN 29 ELSE 28)
                     ELSE IF m \in {4, 6, 9, 11} THEN 30 ELSE 31

ValidDate(y, m, d) == m \in 1..12 /\ d >= 1 /\ d <= DaysInMonth(y, m)

NextDay(d) == IF d.day < DaysInMonth(d.year, d.month) THEN [d EXCEPT !.day = @ + 1]
              ELSE IF d.month < 12 THEN [d EXCEPT !.month = @ + 1, !.day = 1]
              ELSE [year |-> d.year + 1, month |-> 1, day |-> 1]

PrevDay(d) == IF d.day > 1 THEN [d EXCEPT !.day = @ - 1]
              ELSE IF d.month > 1
                   THEN [d EXCEPT !.month = @ - 1, !.day = DaysInMonth(d.year, d.month - 1)]
                   ELSE [year |-> d.year - 1, month |-> 12, day |-> 31]

\* Date<Local>::and_hms: the wall-clock time on that date, in the zone of the date
and_hms(d, off, h, mi, s) ==
    [date |-> d, hour |-> h, minute |-> mi, second |-> s, offset |-> off]

\* dt moved to the minute `total` of its day, counted in the offset off
AtMinute(dt, off, total) ==
    [date |-> IF total < 0 THEN PrevDay(dt.date)
              ELSE IF total >= 1440 THEN NextDay(dt.date) ELSE dt.date,
     hour |-> (total % 1440) \div 60,
     minute |-> (total % 1440) % 60,
     second |-> dt.second,
     offset |-> off]

\* DateTime::with_timezone: the same instant seen from another fixed offset
with_timezone(dt, off) == AtMinute(dt, off, dt.hour * 60 + dt.minute + (off - dt.offset))

(***************************************************************************)
(* parsers::parse_date, parsers::parse_offset, parsers::parse_event        *)
(***************************************************************************)
Unset == [year |-> -1, month |-> -1, day |-> -1]
Bad == [bad |-> TRUE]

FieldWidth(c) == IF c = "Y" THEN 4 ELSE 2

SetField(acc, c, v) == IF c = "Y" THEN [acc EXCEPT !.year = v]
                       ELSE IF c = "m" THEN [acc EXCEPT !.month = v]
                       ELSE [acc EXCEPT !.day = v]

\* match the text s against the format f (%Y, %m, %d and literal characters)
RECURSIVE Strptime(_, _, _)
RECURSIVE StrptimeField(_, _, _, _)
StrptimeField(s, f, acc, w) ==
    IF Len(s) < w \/ ~AllDigits(SubSeq(s, 1, w)) THEN Bad
    ELSE Strptime(SubSeq(s, w + 1, Len(s)), SubSeq(f, 3, Len(f)),
                  SetField(acc, f[2], NatVal(SubSeq(s, 1, w))))

Strptime(s, f, acc) ==
    IF f = <<>> THEN (IF s = <<>> THEN acc ELSE Bad)
    ELSE IF f[1] = "%"
    THEN IF Len(f) < 2 \/ f[2] \notin {"Y", "m", "d"} THEN Bad
         ELSE StrptimeField(s, f, acc, FieldWidth(f[2]))
    ELSE IF s # <<>> /\ s[1] = f[1]
         THEN Strptime(SubSeq(s, 2, Len(s)), SubSeq(f, 2, Len(f)), acc)
         ELSE Bad

\* "+HH:MM" or "-HH:MM" as minutes east of UTC
ParseUtcOffset(s) ==
    IF /\ Len(s) = 6 /\ s[1] \in {"+", "-"} /\ s[4] = ":"
       /\ AllDigits(SubSeq(s, 2, 3)) /\ AllDigits(SubSeq(s, 5, 6))
       /\ NatVal(SubSeq(s, 2, 3)) < 24 /\ NatVal(SubSeq(s, 5, 6)) < 60
    THEN Ok((IF s[1] = "-" THEN -1 ELSE 1)
            * (NatVal(SubSeq(s, 2, 3)) * 60 + NatVal(SubSeq(s, 5, 6))))
    ELSE Err(<<"InvalidDate">>)

\* the calendar date d at 12:00:00 with the offset tz
NoonOf(d, tz) == IF d = Bad THEN Err(<<"InvalidDate">>)
                 ELSE IF ~ValidDate(d.year, d.month, d.day) THEN Err(<<"InvalidDate">>)
                 ELSE IF ~tz.ok THEN tz
                 ELSE Ok(and_hms(d, tz.val, 12, 0, 0))

\* the date at 12:00:00, anchored to the given offset or else to the system's offset sys
ResolveDate(date, date_fmt, utc_offset, sys) ==
    NoonOf(Strptime(date, date_fmt, Unset),
           IF IsSome(utc_offset) THEN ParseUtcOffset(utc_offset.some) ELSE Ok(sys))

\* hours, minutes and seconds, each of two digits, as a signed number of seconds
ClockOf(neg, hms) ==
    IF /\ \A i \in 1..3 : Len(hms[i]) = 2 /\ AllDigits(hms[i])
       /\ NatVal(hms[1]) < 24 /\ NatVal(hms[2]) < 60 /\ NatVal(hms[3]) < 60
    THEN Ok((IF neg THEN -1 ELSE 1)
            * (NatVal(hms[1]) * 3600 + NatVal(hms[2]) * 60 + NatVal(hms[3])))
    ELSE Err(<<"InvalidOffset">>)

ClockOfParts(neg, parts) ==
    IF Len(parts) = 3 THEN ClockOf(neg, parts)
    ELSE IF Len(parts) = 2 THEN ClockOf(neg, parts \o << <<"0", "0">> >>)
    ELSE Err(<<"InvalidOffset">>)

IsNegative(s) == s # <<>> /\ s[1] = "-"

\* "[-]HH:MM[:SS]"
parse_offset(s) ==
    ClockOfParts(IsNegative(s), Split(IF IsNegative(s) THEN Tail(s) ELSE s, ":"))

\* enums::Event, by the name that selects it
EventOf == [sunrise |-> "Sunrise", sunset |-> "Sunset",
            civil_dawn |-> "CivilDawn", civil_dusk |-> "CivilDusk",
            nautical_dawn |-> "NauticalDawn", nautical_dusk |-> "NauticalDusk",
            astronomical_dawn |-> "AstronomicalDawn",
            astronomical_dusk |-> "AstronomicalDusk"]

parse_event(s) == IF s \in DOMAIN EventOf THEN Ok(EventOf[s]) ELSE Err(<<"InvalidEvent">>)

(***************************************************************************)
(* The inputs of one run: the configuration file, the command line and     *)
(* the system clock                                                        *)
(***************************************************************************)
Absent == [absent |-> TRUE]
TomlString(t) == [str |-> t]
TomlInteger(n) == [int |-> n]

\* values a key of heliocron.toml is given: a string, or a number such as latitude = 51
FileLatitudes == {Absent, TomlString(<<"1", "0", ".", "0", "N">>), TomlString(<<"9", "1", "N">>), TomlInteger(51)}
FileLongitudes == {Absent, TomlString(<<"2", "0", ".", "0", "E">>), TomlString(<<"2", "0", "0", "E">>)}

Files == {[kind |-> "missing"], [kind |-> "text", syntax_ok |-> FALSE]}
         \cup [kind : {"text"}, syntax_ok : {TRUE},
               latitude : FileLatitudes, longitude : FileLongitudes]

ArgLatitudes == {None, Some(<<"5", ".", "0", "S">>), Some(<<"4", "5", "X">>)}
ArgLongitudes == {None, Some(<<"5", ".", "0", "W">>), Some(<<"1", ".", "2", ".", "3", "W">>)}
ArgDates == {None, Some(<<"2", "0", "2", "4", "-", "0", "6", "-", "2", "1">>), Some(<<"2", "1", "/", "0", "6", "/", "2", "0", "2", "4">>), Some(<<"2", "0", "2", "4", "-", "0", "2", "-", "3", "0">>)}
ArgDateFormats == {None, Some(<<"%", "d", "/", "%", "m", "/", "%", "Y">>)}
ArgTimeZones == {None, Some(<<"+", "0", "2", ":", "0", "0">>), Some(<<"0", "2", "0", "0">>)}
ArgOffsets == {None, Some(<<"-", "0", "1", ":", "3", "0">>), Some(<<"2", "5", ":", "9", "9">>)}
ArgEvents == {None, Some("sunset")}

ArgSubcommands == {[name |-> "report"]}
                  \cup [name : {"wait"}, offset : ArgOffsets, event : ArgEvents]

Argvs == [latitude : ArgLatitudes, longitude : ArgLongitudes, date : ArgDates,
          date_format : ArgDateFormats, time_zone : ArgTimeZones,
          subcommand : ArgSubcommands]

\* the local calendar date and the local UTC offset (minutes) the system clock reports
Clocks == {[today |-> [year |-> 2024, month |-> 3, day |-> 31], offset |-> 60],
           [today |-> [year |-> 2024, month |-> 12, day |-> 31], offset |-> -300]}

VARIABLES file, argv, clock, pc, config, cli_args, result

vars == <<file, argv, clock, pc, config, cli_args, result>>

(***************************************************************************)
(* External collaborators of get_config                                    *)
(***************************************************************************)
\* fs::read_to_string(path)
read_to_string(f) == IF f.kind = "missing" THEN Err(<<"io">>) ELSE Ok(f)

\* the Option<String> field of TomlConfig a key deserializes to
FieldOf(v) == IF v = Absent THEN None ELSE Some(v.str)

\* toml::from_str::<TomlConfig>: a syntax error or a key that is no string is an error
toml_from_str(f) ==
    IF ~f.syntax_ok THEN Err(<<"toml", "syntax">>)
    ELSE IF \E v \in {f.latitude, f.longitude} : v # Absent /\ "str" \notin DOMAIN v
         THEN Err(<<"toml", "type">>)
         ELSE Ok([latitude |-> FieldOf(f.latitude), longitude |-> FieldOf(f.longitude)])

\* parsers::parse_date, which reads the system's UTC offset when none is given
parse_date(date, date_fmt, utc_offset) == ResolveDate(date, date_fmt, utc_offset, clock.offset)

\* Local::today()
Local_today == clock.today

DefaultDateFormat == <<"%", "Y", "-", "%", "m", "-", "%", "d">>
DefaultOffset == <<"0", "0", ":", "0", "0", ":", "0", "0">>
PossibleEvents == DOMAIN EventOf

\* the Subcommand structopt builds: offset and event are stored as parse results
SubcommandOfArgs(sub) ==
    IF sub.name = "report" THEN [kind |-> "Report"]
    ELSE [kind |-> "Wait",
          offset |-> parse_offset(IF IsSome(sub.offset) THEN sub.offset.some
                                  ELSE DefaultOffset),
          event |-> parse_event(sub.event.some)]

\* Cli::from_args: structopt's checks and defaults; a rejected command line ends the process
Cli_from_args(a) ==
    IF IsSome(a.latitude) # IsSome(a.longitude) THEN Err(<<"usage", "requires">>)
    ELSE IF a.subcommand.name = "wait" /\ a.subcommand.event = None
         THEN Err(<<"usage", "event">>)
    ELSE IF a.subcommand.name = "wait" /\ a.subcommand.event.some \notin PossibleEvents
         THEN Err(<<"usage", "possible_values">>)
    ELSE Ok([subcommand |-> SubcommandOfArgs(a.subcommand),
             date_args |->
                 [date |-> a.date,
                  date_format |-> IF IsSome(a.date_format) THEN a.date_format.some
                                  ELSE DefaultDateFormat,
                  time_zone |-> a.time_zone],
             latitude |-> a.latitude,
             longitude |-> a.longitude])

(***************************************************************************)
(* TomlConfig and Config                                                   *)
(***************************************************************************)
DefaultLatitude == <<"5", "1", ".", "4", "7", "6", "9", "N">>
DefaultLongitude == <<"0", ".", "0", "0", "0", "5", "W">>

TomlConfig_new == [latitude |-> None, longitude |-> None]

from_toml(parsed) == IF parsed.ok THEN parsed.val ELSE TomlConfig_new

\* self.coordinates = c?
SetCoordinates(self, c) == IF c.ok THEN Ok([self EXCEPT !.coordinates = c.val]) ELSE c

\* merge_toml, had it validated and applied whichever field is present
merge_toml_partial(self, toml_config) ==
    SetCoordinates(self,
        CoordinatesOf(IF IsSome(toml_config.latitude)
                      THEN parse_latitude(toml_config.latitude.some)
                      ELSE Ok(self.coordinates.latitude),
                      IF IsSome(toml_config.longitude)
                      THEN parse_longitude(toml_config.longitude.some)
                      ELSE Ok(self.coordinates.longitude)))

merge_toml(self, toml_config) ==
    IF IsSome(toml_config.latitude) /\ IsSome(toml_config.longitude)
    THEN SetCoordinates(self, from_decimal_degrees(toml_config.latitude.some,
                                                   toml_config.longitude.some))
    ELSE Ok(self)

\* the coordinates after the flags: replaced when both flags are present
CliCoordinates(self, cli) ==
    IF IsSome(cli.latitude) /\ IsSome(cli.longitude)
    THEN from_decimal_degrees(cli.latitude.some, cli.longitude.some)
    ELSE Ok(self.coordinates)

\* the date after the flags: replaced when the date flag is present
CliDate(self, date_args) ==
    IF IsSome(date_args.date)
    THEN parse_date(date_args.date.some, date_args.date_format, date_args.time_zone)
    ELSE Ok(self.date)

\* the Config with the three assignments of merge_cli_args made, or the first error
Assigned(self, c, d, subcommand) ==
    IF ~c.ok THEN c
    ELSE IF ~d.ok THEN d
    ELSE Ok([self EXCEPT !.coordinates = c.val, !.date = d.val, !.subcommand = subcommand])

\* merge_cli_args, had coordinates already taken from the file outranked the flags
merge_cli_args_file_wins(self, cli) ==
    Assigned(self,
             IF self.coordinates = from_decimal_degrees(DefaultLatitude, DefaultLongitude).val
             THEN CliCoordinates(self, cli) ELSE Ok(self.coordinates),
             CliDate(self, cli.date_args),
             Some(cli.subcommand))

\* merge_cli_args, had it replaced a failed offset by a zero duration
merge_cli_args_zero_offset(self, cli) ==
    Assigned(self, CliCoordinates(self, cli), CliDate(self, cli.date_args),
             Some(IF cli.subcommand.kind = "Wait" /\ ~cli.subcommand.offset.ok
                  THEN [cli.subcommand EXCEPT !.offset = Ok(0)]
                  ELSE cli.subcommand))

\* merge_cli_args, had it stored the subcommand only when it is Report
merge_cli_args_report_only(self, cli) ==
    Assigned(self, CliCoordinates(self, cli), CliDate(self, cli.date_args),
             IF cli.subcommand.kind = "Report" THEN Some(cli.subcommand)
             ELSE self.subcommand)

\* merge_cli_args, had it not handed the time-zone flag to parse_date
merge_cli_args_local_zone(self, cli) ==
    Assigned(self, CliCoordinates(self, cli),
             CliDate(self, [cli.date_args EXCEPT !.time_zone = None]),
             Some(cli.subcommand))

\* merge_cli_args, had a lone time-zone flag re-anchored the default date
merge_cli_args_zone_alone(self, cli) ==
    Assigned(self, CliCoordinates(self, cli),
             IF /\ cli.date_args.date = None /\ IsSome(cli.date_args.time_zone)
                /\ ParseUtcOffset(cli.date_args.time_zone.some).ok
             THEN Ok([self.date EXCEPT
                          !.offset = ParseUtcOffset(cli.date_args.time_zone.some).val])
             ELSE CliDate(self, cli.date_args),
             Some(cli.subcommand))

\* merge_cli_args, had it copied a parsed Wait event into the event field
merge_cli_args_sets_event(self, cli) ==
    Assigned([self EXCEPT !.event = IF cli.subcommand.kind = "Wait"
                                        /\ cli.subcommand.event.ok
                                     THEN Some(cli.subcommand.event.val) ELSE @],
             CliCoordinates(self, cli), CliDate(self, cli.date_args),
             Some(cli.subcommand))

merge_cli_args(self, cli) ==
    Assigned(self, CliCoordinates(self, cli), CliDate(self, cli.date_args),
             Some(cli.subcommand))

\* the Config literal of step 0, c the result of parsing the default coordinates
ConfigLiteral(c) ==
    IF ~c.ok THEN c
    ELSE Ok([coordinates |-> c.val,
             date |-> with_timezone(and_hms(Local_today, clock.offset, 12, 0, 0),
                                    clock.offset),
             subcommand |-> None,
             event |-> None])

\* step 0 of get_config
default_config == ConfigLiteral(from_decimal_degrees(DefaultLatitude, DefaultLongitude))

\* cfg!(feature = "integration-test"): off in the released program
integration_test == FALSE

InvalidTomlFile == <<"Config", "InvalidTomlFile">>

\* the inner match of step 1, had a failed merge fallen back to the defaults
merged_or_error_lenient(default, merged) ==
    IF merged.ok THEN Ok(merged.val) ELSE Ok(default)

\* the inner match of step 1, had it passed the parser's own error on
merged_or_error_passed_on(default, merged) == merged

\* the inner match of step 1: any error of the merge becomes InvalidTomlFile
merged_or_error(default, merged) ==
    IF merged.ok THEN Ok(merged.val) ELSE Err(InvalidTomlFile)

\* the outer match of step 1, on the result of reading the file
match_file(default, rd) ==
    IF rd.ok
    THEN merged_or_error(default, merge_toml(default, from_toml(toml_from_str(rd.val))))
    ELSE Ok(default)

\* step 1 of get_config
load_toml(default, f) ==
    IF integration_test THEN Ok(default) ELSE match_file(default, read_to_string(f))

(***************************************************************************)
(* get_config, one action per step                                         *)
(***************************************************************************)
Init == /\ file \in Files
        /\ argv \in Argvs
        /\ clock \in Clocks
        /\ pc = "start"
        /\ config = None
        /\ cli_args = None
        /\ result = None

\* the step ends with the configuration r.val, or get_config returns the error r
Proceed(r, next) ==
    IF r.ok THEN /\ config' = Some(r.val)
                 /\ pc' = next
                 /\ result' = (IF next = "done" THEN r ELSE result)
    ELSE /\ config' = None
         /\ pc' = "error"
         /\ result' = r

SetUpDefault ==
    /\ pc = "start"
    /\ Proceed(default_config, "defaults")
    /\ UNCHANGED <<file, argv, clock, cli_args>>

LoadFile ==
    /\ pc = "defaults"
    /\ Proceed(load_toml(config.some, file), "file")
    /\ UNCHANGED <<file, argv, clock, cli_args>>

MergeCli ==
    /\ pc = "file"
    /\ \E args \in {Cli_from_args(argv)} :
          IF ~args.ok
          THEN /\ pc' = "usage"
               /\ config' = None
               /\ UNCHANGED <<cli_args, result>>
          ELSE /\ cli_args' = Some(args.val)
               /\ Proceed(merge_cli_args(config.some, args.val), "done")
    /\ UNCHANGED <<file, argv, clock>>

Next == SetUpDefault \/ LoadFile \/ MergeCli

Spec == Init /\ [][Next]_vars

(***************************************************************************)
(* Vocabulary of the properties                                            *)
(***************************************************************************)
Returned == pc \in {"done", "error"}

\* the file can be read and holds both keys as strings
FileHoldsPair == /\ file.kind = "text" /\ file.syntax_ok
                 /\ "str" \in DOMAIN file.latitude /\ "str" \in DOMAIN file.longitude

FilePair == from_decimal_degrees(file.latitude.str, file.longitude.str)

\* the file can be read and holds exactly one of the two keys, as a string
FileHoldsLoneField ==
    /\ file.kind = "text" /\ file.syntax_ok
    /\ \/ "str" \in DOMAIN file.latitude /\ file.longitude = Absent
       \/ file.latitude = Absent /\ "str" \in DOMAIN file.longitude

\* the file can be read and its content does not parse into a TomlConfig
FileUnparsable == file.kind = "text" /\ ~toml_from_str(file).ok

ArgsHavePair == IsSome(argv.latitude) /\ IsSome(argv.longitude)

ArgsPair == from_decimal_degrees(argv.latitude.some, argv.longitude.some)

ArgsDate == parse_date(argv.date.some,
                       IF IsSome(argv.date_format) THEN argv.date_format.some
                       ELSE DefaultDateFormat,
                       argv.time_zone)

\* n ten-thousandths of a degree, in the fixed-point unit of the model
TenThousandths(n) == n * Pow10(Decimals - 4)

DefaultPair == [latitude |-> TenThousandths(514769), longitude |-> TenThousandths(-5)]

NoonToday == [date |-> clock.today, hour |-> 12, minute |-> 0, second |-> 0,
              offset |-> clock.offset]

WaitWithFailedOffset ==
    /\ argv.subcommand.name = "wait"
    /\ IsSome(argv.subcommand.offset)
    /\ ~parse_offset(argv.subcommand.offset.some).ok

SubcommandOf(c) == IF c = None THEN None ELSE c.some.subcommand

\* C1: the resolved coordinates are the command-line pair when both flags are
\* given, otherwise the file's pair when the file is readable and holds both
\* keys, otherwise the defaults 51.4769N 0.0005W; a pair is replaced whole.
C1_CoordinatePrecedence ==
    pc = "done" =>
        /\ result.ok
        /\ ArgsHavePair => ArgsPair.ok
        /\ (~ArgsHavePair /\ FileHoldsPair) => FilePair.ok
        /\ result.val.coordinates =
               IF ArgsHavePair THEN ArgsPair.val
               ELSE IF FileHoldsPair THEN FilePair.val
               ELSE DefaultPair
        /\ (/\ ~ArgsHavePair /\ FileHoldsPair
            /\ file.latitude.str = <<"1", "0", ".", "0", "N">> /\ file.longitude.str = <<"2", "0", ".", "0", "E">>)
           => result.val.coordinates = [latitude |-> TenThousandths(100000),
                                         longitude |-> TenThousandths(200000)]
        /\ (ArgsHavePair /\ argv.latitude.some = <<"5", ".", "0", "S">> /\ argv.longitude.some = <<"5", ".", "0", "W">>)
           => result.val.coordinates = [latitude |-> TenThousandths(-50000),
                                         longitude |-> TenThousandths(-50000)]

C1_Witness ==
    /\ pc = "done" /\ FileHoldsPair /\ FilePair.ok /\ ArgsHavePair
    /\ result.val.coordinates = [latitude |-> TenThousandths(-50000),
                                         longitude |-> TenThousandths(-50000)]

\* C2: a missing or unreadable file gives exactly the defaults and no error; a
\* readable file whose content does not parse into the expected structure makes
\* get_config fail with the invalid-config-file error before the command line
\* is consulted.
C2_FileLayerOutcomes ==
    /\ (file.kind = "missing" /\ pc = "file")
       => config = Some([coordinates |-> DefaultPair, date |-> NoonToday,
                         subcommand |-> None, event |-> None])
    /\ FileUnparsable
       => /\ pc \in {"start", "defaults", "error"}
          /\ cli_args = None
          /\ pc = "error" => result = Err(InvalidTomlFile)

\* C3: when the file holds both keys and one of them is no valid coordinate,
\* get_config returns the Config error InvalidTomlFile and no configuration,
\* whatever the command line is, and the command-line stage is not reached.
C3_CorruptFileIsFatal ==
    (FileHoldsPair /\ ~FilePair.ok) =>
        /\ pc \in {"start", "defaults", "error"}
        /\ cli_args = None
        /\ pc = "error" => (result = Err(InvalidTomlFile) /\ config = None)

C3_Witness ==
    /\ pc = "error" /\ FileHoldsPair /\ ~FilePair.ok
    /\ ArgsHavePair /\ ArgsPair.ok
    /\ result = Err(InvalidTomlFile)

\* C4: a Wait subcommand whose offset failed to parse never makes get_config
\* fail; the returned configuration holds the failed result as parsed, never a
\* zero or default duration in its place.
C4_DeferredOffset ==
    (WaitWithFailedOffset /\ cli_args # None) =>
        /\ pc = "error" => \/ ArgsHavePair /\ ~ArgsPair.ok
                           \/ IsSome(argv.date) /\ ~ArgsDate.ok
        /\ pc = "done" =>
               /\ result.ok
               /\ result.val.subcommand.some.kind = "Wait"
               /\ result.val.subcommand.some.offset = Err(<<"InvalidOffset">>)
               /\ result.val.subcommand.some.offset = cli_args.some.subcommand.offset
               /\ result.val.subcommand.some.event = cli_args.some.subcommand.event

C4_Witness ==
    /\ pc = "done" /\ WaitWithFailedOffset
    /\ argv.subcommand.offset.some = <<"2", "5", ":", "9", "9">>
    /\ ~result.val.subcommand.some.offset.ok

\* C5: the subcommand is absent in the default configuration and after the
\* file layer, is assigned only by the command-line stage and only once, and
\* every returned configuration holds the subcommand chosen on the command line.
C5_SubcommandSetOnce ==
    /\ [](pc \in {"start", "defaults", "file"} => SubcommandOf(config) = None)
    /\ [](pc = "done" =>
            /\ result.ok
            /\ IsSome(result.val.subcommand)
            /\ result.val.subcommand = Some(cli_args.some.subcommand)
            /\ (argv.subcommand.name = "report")
               <=> (result.val.subcommand.some.kind = "Report")
            /\ (argv.subcommand.name = "wait")
               <=> (result.val.subcommand.some.kind = "Wait"))
    /\ [][SubcommandOf(config') # SubcommandOf(config)
          => (pc = "file" /\ pc' = "done" /\ SubcommandOf(config) = None)]_vars

C5_Witness ==
    /\ pc = "done"
    /\ argv.subcommand.name = "wait"
    /\ result.val.subcommand.some.kind = "Wait"

\* C6: a file that holds only one of latitude and longitude changes nothing and
\* raises no error, even when the lone string is no valid coordinate.
C6_LoneFieldIgnored ==
    FileHoldsLoneField =>
        /\ pc = "file"
           => config = Some([coordinates |-> DefaultPair, date |-> NoonToday,
                             subcommand |-> None, event |-> None])
        /\ pc = "error" => (cli_args # None /\ result # Err(InvalidTomlFile))
        /\ pc = "done" => (ArgsHavePair \/ result.val.coordinates = DefaultPair)

C6_Witness ==
    /\ pc = "file"
    /\ file.kind = "text" /\ file.syntax_ok
    /\ file.latitude = TomlString(<<"9", "1", "N">>) /\ file.longitude = Absent
    /\ config.some.coordinates = DefaultPair

\* C7 as stated: whenever a time-zone flag is given the resolved date carries
\* that offset, with or without a date flag; the local offset is attached only
\* when no time-zone flag is given.
C7_ZoneAlwaysOverrides ==
    pc = "done" =>
        result.val.date.offset =
            IF IsSome(argv.time_zone) /\ ParseUtcOffset(argv.time_zone.some).ok
            THEN ParseUtcOffset(argv.time_zone.some).val
            ELSE clock.offset

\* C7 as amended: the resolved date carries the time-zone flag's offset when a
\* date flag is given with it; without a date flag, or without a time-zone
\* flag, it carries the local system offset.
C7_ZoneOverridesWithDate ==
    pc = "done" =>
        /\ (IsSome(argv.date) /\ IsSome(argv.time_zone))
           => ParseUtcOffset(argv.time_zone.some).ok
        /\ result.val.date.offset =
               IF IsSome(argv.date) /\ IsSome(argv.time_zone)
               THEN ParseUtcOffset(argv.time_zone.some).val
               ELSE clock.offset

C7_Witness ==
    /\ pc = "done"
    /\ IsSome(argv.date) /\ argv.time_zone = Some(<<"+", "0", "2", ":", "0", "0">>)
    /\ result.val.date.offset = 120
    /\ clock.offset # 120

\* C8: the command-line stage changes the date exactly when a date flag is
\* given: without one the date stays today at 12:00:00 with the local offset,
\* whatever the format and time-zone flags; with one it is the date resolved
\* with the format and time zone given, and a failed resolution makes
\* get_config return an error and no configuration.
C8_DateChangesWithFlagOnly ==
    (Returned /\ cli_args # None) =>
        /\ (pc = "done" /\ argv.date = None) => result.val.date = NoonToday
        /\ (pc = "done" /\ IsSome(argv.date))
           => (ArgsDate.ok /\ result.val.date = ArgsDate.val)
        /\ (IsSome(argv.date) /\ ~ArgsDate.ok)
           => (pc = "error" /\ ~result.ok /\ config = None)

C8_Witness ==
    /\ pc = "done" /\ argv.date = None
    /\ argv.time_zone = Some(<<"+", "0", "2", ":", "0", "0">>) /\ IsSome(argv.date_format)
    /\ result.val.date = NoonToday

\* the error of the run on file f and command line a, on this run's clock
RunOutcome(f, a) ==
    LET loaded == load_toml(default_config.val, f)
    IN IF ~loaded.ok THEN loaded
       ELSE merge_cli_args(loaded.val, Cli_from_args(a).val)

\* the source and field a failing run's failure comes from
Culprit(f, a) ==
    IF /\ f.kind = "text" /\ f.syntax_ok
       /\ "str" \in DOMAIN f.latitude /\ "str" \in DOMAIN f.longitude
       /\ ~from_decimal_degrees(f.latitude.str, f.longitude.str).ok
    THEN [source |-> "file",
          field |-> IF parse_latitude(f.latitude.str).ok THEN "longitude" ELSE "latitude"]
    ELSE IF /\ IsSome(a.latitude) /\ IsSome(a.longitude)
            /\ ~from_decimal_degrees(a.latitude.some, a.longitude.some).ok
    THEN [source |-> "flag",
          field |-> IF parse_latitude(a.latitude.some).ok THEN "longitude" ELSE "latitude"]
    ELSE [source |-> "flag", field |-> "date"]

PlainArgs == [latitude |-> None, longitude |-> None, date |-> None, date_format |-> None,
              time_zone |-> None, subcommand |-> [name |-> "report"]]

TextFile(lat, lon) == [kind |-> "text", syntax_ok |-> TRUE,
                       latitude |-> TomlString(lat), longitude |-> TomlString(lon)]

\* failing runs to compare a failing run with, one for each source and field
ReferenceRuns ==
    {[f |-> TextFile(<<"9", "1", "N">>, <<"2", "0", ".", "0", "E">>), a |-> PlainArgs],
     [f |-> TextFile(<<"1", "0", ".", "0", "N">>, <<"2", "0", "0", "E">>), a |-> PlainArgs],
     [f |-> [kind |-> "missing"],
      a |-> [PlainArgs EXCEPT !.latitude = Some(<<"4", "5", "X">>), !.longitude = Some(<<"5", ".", "0", "W">>)]],
     [f |-> [kind |-> "missing"],
      a |-> [PlainArgs EXCEPT !.latitude = Some(<<"5", ".", "0", "S">>), !.longitude = Some(<<"1", ".", "2", ".", "3", "W">>)]],
     [f |-> [kind |-> "missing"],
      a |-> [PlainArgs EXCEPT !.date = Some(<<"2", "0", "2", "4", "-", "0", "2", "-", "3", "0">>)]]}

\* C9 as stated: two failing runs whose failures come from different sources
\* or from different fields never return the same error value.
C9_ErrorNamesSourceAndField ==
    pc = "error" =>
        \A r \in ReferenceRuns :
            Culprit(r.f, r.a) # Culprit(file, argv) => RunOutcome(r.f, r.a) # result

\* C9 as amended: two failing runs return different error values when their
\* failures come from different sources, or from different command-line fields;
\* every failure of the file layer returns the one value InvalidTomlFile,
\* whichever of its fields failed.
C9_ErrorNamesSource ==
    pc = "error" =>
        /\ (Culprit(file, argv).source = "file") <=> (result = Err(InvalidTomlFile))
        /\ \A r \in ReferenceRuns :
               (/\ Culprit(r.f, r.a) # Culprit(file, argv)
                /\ "flag" \in {Culprit(r.f, r.a).source, Culprit(file, argv).source})
               => RunOutcome(r.f, r.a) # result

C9_Witness ==
    /\ pc = "error"
    /\ Culprit(file, argv) = [source |-> "file", field |-> "latitude"]
    /\ ArgsHavePair /\ ~ArgsPair.ok
    /\ result = Err(InvalidTomlFile)

\* C10: the event field of the configuration is absent at every stage and in
\* every returned configuration, for Report and for Wait; a Wait command's
\* event is found only inside the subcommand.
C10_EventNeverSet ==
    /\ config # None => config.some.event = None
    /\ pc = "done" => (result.ok /\ result.val.event = None)

C10_Witness ==
    /\ pc = "done"
    /\ result.val.subcommand.some.kind = "Wait"
    /\ result.val.subcommand.some.event = Ok("Sunset")
    /\ result.val.event = None

====
